---- MODULE Spec2Model ----
(***************************************************************************)
(* Model of blog/models.py: the Post, Tag and Comment tables, their        *)
(* relations, Tag.clean, the get_absolute_url hooks and the query helpers  *)
(* of PostQuerySet and TagQuerySet.                                        *)
(*                                                                         *)
(* Titles are sequences of characters, tables are functions from primary   *)
(* keys to rows, many-to-many tables are sets of pairs.                    *)
(***************************************************************************)
EXTENDS Integers, Sequences, FiniteSets, TLC

\* ------------------------------------------------------------------ bounds
MaxTitleLen == 2
MaxTags == 2
MaxPosts == 3
MaxComments == 2

\* ----------------------------------------------------------------- strings
\* The alphabet of the modelled titles: an upper-case letter and its
\* lower-case form.
Chars == {"P", "p"}
UpperChars == {"P"}

StringsUpTo(n) == UNION {[1..k -> Chars] : k \in 1..n}
Titles == StringsUpTo(MaxTitleLen)

\* str.lower() on one character.
LowerChar(c) == IF c = "P" THEN "p" ELSE c

\* A faulty lower(): only the first character is converted.
LowerFirstOnly(s) == [i \in 1..Len(s) |-> IF i = 1 THEN LowerChar(s[i]) ELSE s[i]]

\* str.lower(): every character converted.
Lower(s) == [i \in 1..Len(s) |-> LowerChar(s[i])]

\* No character of s is an upper-case letter.
IsLowercase(s) == \A i \in 1..Len(s) : s[i] \notin UpperChars

\* ------------------------------------------------------------------- state
VARIABLES
    tags,            \* the Tag table: tags[id] is the title of the row with that id
    tag_obj,         \* the in-memory Tag instance a caller is working on
    tag_pc,          \* where that caller is: "none", "built", "cleaned", "saved", "rejected"
    users,           \* the User table: the ids of its rows
    is_staff,        \* the users whose is_staff flag is set
    posts,           \* the Post table: posts[id] = [author, slug]
    next_post_id,    \* the next primary key of the Post table (keys are not reused)
    comments,        \* the Comment table: comments[id] = [post, author]
    next_comment_id, \* the next primary key of the Comment table
    likes,           \* the Post.likes table: pairs <<post, user>>
    post_tags,       \* the Post.tags table: pairs <<post, tag>>
    fetch_qs,        \* fetch_with_comments_count: the post ids its queryset selects
    fetch_pc,        \* ... where the call is: "idle", "loaded", "counted", "done", "failed"
    fetched,         \* ... the loaded post objects: [id, comments_count]
    count_for_id,    \* ... the mapping built from the count query
    pop_pc,          \* popular(): "idle", or "posts" / "tags" when a result is held
    pop_qs,          \* ... the ids its queryset selects
    pop_result,      \* ... the annotated rows it returned, in order
    url_pc,          \* get_absolute_url: "idle", "returned", "raised"
    url_obj,         \* ... the instance it was called on: [kind, id]
    url_call         \* ... the call of reverse() it made: [viewname, args]

tag_vars == <<tags, tag_obj, tag_pc>>
db_vars == <<users, is_staff, posts, next_post_id, comments, next_comment_id, likes, post_tags>>
fetch_vars == <<fetch_qs, fetch_pc, fetched, count_for_id>>
pop_vars == <<pop_pc, pop_qs, pop_result>>
url_vars == <<url_pc, url_obj, url_call>>
call_vars == <<fetch_vars, pop_vars, url_vars>>
vars == <<tag_vars, db_vars, call_vars>>

EmptyTable == [x \in {} |-> x]

\* The database before anything is stored.
InitEmptyDb ==
    /\ users = {}
    /\ is_staff = {}
    /\ posts = EmptyTable
    /\ next_post_id = 1
    /\ comments = EmptyTable
    /\ next_comment_id = 1
    /\ likes = {}
    /\ post_tags = {}

NoObject == [kind |-> "none", id |-> 0]
NoCall == [viewname |-> "", args |-> <<>>]

\* No call of a query helper or of a URL hook is under way.
InitCalls ==
    /\ fetch_qs = {}
    /\ fetch_pc = "idle"
    /\ fetched = <<>>
    /\ count_for_id = EmptyTable
    /\ pop_pc = "idle"
    /\ pop_qs = {}
    /\ pop_result = <<>>
    /\ url_pc = "idle"
    /\ url_obj = NoObject
    /\ url_call = NoCall

TagIds == 1..MaxTags
NoTag == [id |-> 0, title |-> <<>>]

\* ------------------------------------------------------------ Tag instance
\* Tag(title=t): a fresh instance that is not in the table yet.
TagNew(t) ==
    /\ tag_pc = "none"
    /\ tag_obj' = [id |-> 0, title |-> t]
    /\ tag_pc' = "built"
    /\ UNCHANGED <<tags, db_vars, call_vars>>

\* Tag.objects.get(id=i) followed by tag.title = t.
TagEdit(i, t) ==
    /\ tag_pc = "none"
    /\ i \in 1..Len(tags)
    /\ tag_obj' = [id |-> i, title |-> t]
    /\ tag_pc' = "built"
    /\ UNCHANGED <<tags, db_vars, call_vars>>

\* A faulty clean(): the lower-cased title is not assigned.
CleanNotAssigned(obj) == obj

\* Tag.clean on an instance.
Clean(obj) == [obj EXCEPT !.title = Lower(obj.title)]

TagClean ==
    /\ tag_pc \in {"built", "cleaned"}
    /\ tag_obj' = Clean(tag_obj)
    /\ tag_pc' = "cleaned"
    /\ UNCHANGED <<tags, db_vars, call_vars>>

\* A faulty column without the unique constraint.
TitleNeverTaken(obj, table) == FALSE

\* unique=True on Tag.title: another row already holds this title.
TitleTaken(obj, table) ==
    \E j \in 1..Len(table) : j # obj.id /\ table[j] = obj.title

\* The row written by save(): an INSERT for a fresh instance, an UPDATE otherwise.
Written(obj, table) ==
    IF obj.id = 0 THEN Append(table, obj.title)
    ELSE [table EXCEPT ![obj.id] = obj.title]

\* tag.save(): no validation runs here; the database rejects a duplicate title.
TagSave ==
    /\ tag_pc \in {"built", "cleaned"}
    /\ tag_obj.id = 0 => Len(tags) < MaxTags
    /\ IF TitleTaken(tag_obj, tags)
       THEN /\ tag_pc' = "rejected"
            /\ UNCHANGED <<tags, tag_obj>>
       ELSE /\ tags' = Written(tag_obj, tags)
            /\ tag_obj' = [tag_obj EXCEPT !.id = IF tag_obj.id = 0 THEN Len(tags) + 1 ELSE tag_obj.id]
            /\ tag_pc' = "saved"
    /\ UNCHANGED <<db_vars, call_vars>>

\* The caller drops the instance.
TagDone ==
    /\ tag_pc \in {"saved", "rejected"}
    /\ tag_obj' = NoTag
    /\ tag_pc' = "none"
    /\ UNCHANGED <<tags, db_vars, call_vars>>

InitTag ==
    /\ tags = <<>>
    /\ tag_obj = NoTag
    /\ tag_pc = "none"

\* The empty database, no instance in memory, no call under way.
InitBlog ==
    /\ InitTag
    /\ InitEmptyDb
    /\ InitCalls

NextTag ==
    \/ \E t \in Titles : TagNew(t)
    \/ \E i \in TagIds, t \in Titles : TagEdit(i, t)
    \/ TagClean
    \/ TagSave
    \/ TagDone

SpecTag == InitBlog /\ [][NextTag]_vars

\* ------------------------------------------------------------ the tables
\* The primary keys the User table can hold.
Users == {1, 2}
PostIds == 1..MaxPosts
CommentIds == 1..MaxComments
\* The slugs given to posts.
Slugs == {"first", "second"}


\* The table without the rows whose keys are in gone.
Without(table, gone) == [k \in DOMAIN table \ gone |-> table[k]]

\* The table with one more row.
WithRow(table, k, row) == [j \in DOMAIN table \cup {k} |-> IF j = k THEN row ELSE table[j]]

\* ------------------------------------------------------------------ User
\* The framework's User table: a row is added, its is_staff flag is changed.
UserCreate(u, staff) ==
    /\ u \notin users
    /\ users' = users \cup {u}
    /\ is_staff' = IF staff THEN is_staff \cup {u} ELSE is_staff
    /\ UNCHANGED <<posts, next_post_id, comments, next_comment_id, likes, post_tags, tag_vars, call_vars>>

UserSetStaff(u, staff) ==
    /\ u \in users
    /\ is_staff' = IF staff THEN is_staff \cup {u} ELSE is_staff \ {u}
    /\ UNCHANGED <<users, posts, next_post_id, comments, next_comment_id, likes, post_tags, tag_vars, call_vars>>

\* ------------------------------------------------------------ on_delete
\* A faulty relation (on_delete=DO_NOTHING): no comment goes with a post.
CommentsOfPostsKept(gone) == {}

\* Comment.post has on_delete=CASCADE: the comments that go with these posts.
CommentsOfPosts(gone) == {c \in DOMAIN comments : comments[c].post \in gone}

\* Comment.author has on_delete=CASCADE: the comments that go with this user.
CommentsOfUser(u) == {c \in DOMAIN comments : comments[c].author = u}

\* Post.author has on_delete=CASCADE: the posts that go with this user.
PostsOfUser(u) == {p \in DOMAIN posts : posts[p].author = u}

\* The deletion of a set of posts and users: the comments on the posts and by
\* the users, and the rows of the likes and tags tables, go with them.
DeleteCascade(gone_posts, gone_users) ==
    /\ posts' = Without(posts, gone_posts)
    /\ comments' = Without(comments,
                     CommentsOfPosts(gone_posts) \cup UNION {CommentsOfUser(u) : u \in gone_users})
    /\ likes' = {l \in likes : l[1] \notin gone_posts /\ l[2] \notin gone_users}
    /\ post_tags' = {r \in post_tags : r[1] \notin gone_posts}

\* post.delete()
PostDelete(p) ==
    /\ p \in DOMAIN posts
    /\ DeleteCascade({p}, {})
    /\ UNCHANGED <<users, is_staff, next_post_id, next_comment_id, tag_vars, call_vars>>

\* user.delete(): the user's posts (with what hangs on them), comments and likes go too.
UserDelete(u) ==
    /\ u \in users
    /\ users' = users \ {u}
    /\ is_staff' = is_staff \ {u}
    /\ DeleteCascade(PostsOfUser(u), {u})
    /\ UNCHANGED <<next_post_id, next_comment_id, tag_vars, call_vars>>

\* ------------------------------------------------------------------ Post
\* A faulty field without limit_choices_to.
LimitChoicesToAnyone(u) == TRUE

\* limit_choices_to={'is_staff': True} on Post.author: the users validation accepts.
LimitChoicesTo(u) == u \in is_staff

\* The row written for a post.
PostRow(u, s) == [author |-> u, slug |-> s]

\* Post.objects.create(author=u, slug=s, ...): no validation runs.
PostCreate(u, s) ==
    /\ u \in users
    /\ next_post_id <= MaxPosts
    /\ posts' = WithRow(posts, next_post_id, PostRow(u, s))
    /\ next_post_id' = next_post_id + 1
    /\ UNCHANGED <<users, is_staff, comments, next_comment_id, likes, post_tags, tag_vars, call_vars>>

\* A post created through a validated form: full_clean() applies limit_choices_to.
PostCreateValidated(u, s) ==
    /\ LimitChoicesTo(u)
    /\ PostCreate(u, s)

\* post.author = u; post.save(): no validation runs.
PostSetAuthor(p, u) ==
    /\ p \in DOMAIN posts
    /\ u \in users
    /\ posts' = [posts EXCEPT ![p].author = u]
    /\ UNCHANGED <<users, is_staff, next_post_id, comments, next_comment_id, likes, post_tags, tag_vars, call_vars>>

\* The author changed through a validated form.
PostSetAuthorValidated(p, u) ==
    /\ LimitChoicesTo(u)
    /\ PostSetAuthor(p, u)

\* --------------------------------------------------------------- Comment
\* Comment.objects.create(post=p, author=u, ...)
CommentCreate(p, u) ==
    /\ p \in DOMAIN posts
    /\ u \in users
    /\ next_comment_id <= MaxComments
    /\ comments' = WithRow(comments, next_comment_id, [post |-> p, author |-> u])
    /\ next_comment_id' = next_comment_id + 1
    /\ UNCHANGED <<users, is_staff, posts, next_post_id, likes, post_tags, tag_vars, call_vars>>

\* comment.delete()
CommentDelete(c) ==
    /\ c \in DOMAIN comments
    /\ comments' = Without(comments, {c})
    /\ UNCHANGED <<users, is_staff, posts, next_post_id, next_comment_id, likes, post_tags, tag_vars, call_vars>>

\* ------------------------------------------- posts, comments and users
NextBlog ==
    \/ \E u \in Users, staff \in BOOLEAN : UserCreate(u, staff)
    \/ \E u \in Users, staff \in BOOLEAN : UserSetStaff(u, staff)
    \/ \E u \in Users : UserDelete(u)
    \/ \E u \in Users : PostCreate(u, "first")
    \/ \E u \in Users : PostCreateValidated(u, "first")
    \/ \E p \in PostIds, u \in Users : PostSetAuthor(p, u)
    \/ \E p \in PostIds, u \in Users : PostSetAuthorValidated(p, u)
    \/ \E p \in PostIds : PostDelete(p)
    \/ \E p \in PostIds, u \in Users : CommentCreate(p, u)
    \/ \E c \in CommentIds : CommentDelete(c)

SpecBlog == InitBlog /\ [][NextBlog]_vars

\* ----------------------------------------------------------------- likes
\* post.likes.add(u)
Like(p, u) ==
    /\ p \in DOMAIN posts
    /\ u \in users
    /\ <<p, u>> \notin likes
    /\ likes' = likes \cup {<<p, u>>}
    /\ UNCHANGED <<users, is_staff, posts, next_post_id, comments, next_comment_id, post_tags, tag_vars, call_vars>>

\* post.likes.remove(u)
Unlike(p, u) ==
    /\ <<p, u>> \in likes
    /\ likes' = likes \ {<<p, u>>}
    /\ UNCHANGED <<users, is_staff, posts, next_post_id, comments, next_comment_id, post_tags, tag_vars, call_vars>>

\* A database in which the users exist already.
InitUsersDb ==
    /\ users = Users
    /\ is_staff = Users
    /\ posts = EmptyTable
    /\ next_post_id = 1
    /\ comments = EmptyTable
    /\ next_comment_id = 1
    /\ likes = {}
    /\ post_tags = {}

\* ------------------------------------------------------------- querysets
\* The NULL of an outer join, and the attribute that is not set on an object.
Null == 0
NoCount == -1

Max(S) == CHOOSE m \in S : \A x \in S : x <= m

\* The rows of a queryset as a list, newest key first.
RECURSIVE ToList(_)
ToList(S) == IF S = {} THEN <<>> ELSE <<Max(S)>> \o ToList(S \ {Max(S)})

\* The ids of a list of objects.
IdsOf(objs) == {objs[i].id : i \in 1..Len(objs)}

\* ------------------------------- PostQuerySet.fetch_with_comments_count
\* An inner join: a post without comments has no row.
InnerJoinComments(ids) ==
    {<<comments[c].post, c>> :
        c \in {c \in DOMAIN comments : comments[c].post \in ids \cap DOMAIN posts}}

\* Post.objects.filter(id__in=ids) joined with the comments: the left outer
\* join the annotation runs on, one row per comment and a NULL row for a post
\* without comments.
LeftJoinComments(ids) ==
    UNION {IF \E c \in DOMAIN comments : comments[c].post = p
           THEN {<<p, c>> : c \in {c \in DOMAIN comments : comments[c].post = p}}
           ELSE {<<p, Null>>} : p \in ids \cap DOMAIN posts}

\* The annotation computed on the rows of self when self is joined with the
\* likes: every comment is counted once per like.
CommentsCountTimesLikes(rows, p) ==
    Cardinality({r \in rows : r[1] = p /\ r[2] # Null})
      * (IF \E l \in likes : l[1] = p THEN Cardinality({l \in likes : l[1] = p}) ELSE 1)

\* Count('comments', distinct=True) of post p over the joined rows.
CommentsCount(rows, p) ==
    Cardinality({r[2] : r \in {r \in rows : r[1] = p /\ r[2] # Null}})

\* dict(posts_with_comments.values_list('id', 'comments_count'))
CountForId(ids) ==
    LET rows == LeftJoinComments(ids)
    IN  [p \in {r[1] : r \in rows} |-> CommentsCount(rows, p)]

\* posts = self; post_ids = [post.id for post in posts]: the queryset is
\* evaluated and its objects are kept.
FetchLoad(qs) ==
    /\ fetch_pc = "idle"
    /\ fetch_qs' = qs
    /\ fetched' = [i \in 1..Cardinality(qs \cap DOMAIN posts) |->
                     [id |-> ToList(qs \cap DOMAIN posts)[i], comments_count |-> NoCount]]
    /\ count_for_id' = EmptyTable
    /\ fetch_pc' = "loaded"
    /\ UNCHANGED <<db_vars, tag_vars, pop_vars, url_vars>>

\* The separate count query and the mapping built from it.
FetchCount ==
    /\ fetch_pc = "loaded"
    /\ count_for_id' = CountForId(IdsOf(fetched))
    /\ fetch_pc' = "counted"
    /\ UNCHANGED <<fetch_qs, fetched, db_vars, tag_vars, pop_vars, url_vars>>

\* The first object whose id is not a key of the mapping, or one past the last.
FirstMissing(objs, mapping) ==
    IF \E i \in 1..Len(objs) : objs[i].id \notin DOMAIN mapping
    THEN CHOOSE i \in 1..Len(objs) :
            /\ objs[i].id \notin DOMAIN mapping
            /\ \A j \in 1..(i - 1) : objs[j].id \in DOMAIN mapping
    ELSE Len(objs) + 1

\* for post in posts: post.comments_count = count_for_id[post.id]
\* The loop stops with a KeyError at the first id that is not a key.
FetchAttach ==
    /\ fetch_pc = "counted"
    /\ fetched' = [i \in 1..Len(fetched) |->
                     IF i < FirstMissing(fetched, count_for_id)
                     THEN [fetched[i] EXCEPT !.comments_count = count_for_id[fetched[i].id]]
                     ELSE fetched[i]]
    /\ fetch_pc' = IF FirstMissing(fetched, count_for_id) > Len(fetched) THEN "done" ELSE "failed"
    /\ UNCHANGED <<fetch_qs, count_for_id, db_vars, tag_vars, pop_vars, url_vars>>

\* The call has returned or raised; its locals are gone.
FetchEnd ==
    /\ fetch_pc \in {"done", "failed"}
    /\ fetch_qs' = {}
    /\ fetched' = <<>>
    /\ count_for_id' = EmptyTable
    /\ fetch_pc' = "idle"
    /\ UNCHANGED <<db_vars, tag_vars, pop_vars, url_vars>>

InitFetch ==
    /\ InitTag
    /\ InitUsersDb
    /\ InitCalls

\* The call, with other requests writing to the database between its queries.
NextFetch ==
    \/ PostCreate(1, "first")
    \/ \E p \in PostIds : PostDelete(p)
    \/ \E p \in PostIds : CommentCreate(p, 2)
    \/ \E qs \in SUBSET PostIds : FetchLoad(qs)
    \/ FetchCount
    \/ FetchAttach
    \/ FetchEnd

SpecFetch == InitFetch /\ [][NextFetch]_vars

\* The call on its own: nothing else writes while it runs.
NextFetchAlone ==
    \/ fetch_pc = "idle" /\ PostCreate(1, "first")
    \/ fetch_pc = "idle" /\ \E p \in PostIds : PostDelete(p)
    \/ fetch_pc = "idle" /\ \E p \in PostIds : CommentCreate(p, 2)
    \/ fetch_pc = "idle" /\ \E p \in PostIds, u \in Users : Like(p, u)
    \/ \E qs \in SUBSET PostIds : FetchLoad(qs)
    \/ FetchCount
    \/ FetchAttach
    \/ FetchEnd

SpecFetchAlone == InitFetch /\ [][NextFetchAlone]_vars

\* ------------------------------------------------------------------ tags
\* post.tags.add(t)
PostAddTag(p, t) ==
    /\ p \in DOMAIN posts
    /\ t \in 1..Len(tags)
    /\ <<p, t>> \notin post_tags
    /\ post_tags' = post_tags \cup {<<p, t>>}
    /\ UNCHANGED <<users, is_staff, posts, next_post_id, comments, next_comment_id, likes, tag_vars, call_vars>>

\* post.tags.remove(t)
PostRemoveTag(p, t) ==
    /\ <<p, t>> \in post_tags
    /\ post_tags' = post_tags \ {<<p, t>>}
    /\ UNCHANGED <<users, is_staff, posts, next_post_id, comments, next_comment_id, likes, tag_vars, call_vars>>

\* A Tag table of n rows with the titles "p", "pp", ...
SampleTags(n) == [i \in 1..n |-> [j \in 1..i |-> "p"]]

\* ------------------------------------------------------------- popular()
\* The orders in which a database may return rows sorted on key ascending.
OrderByAsc(rows, key) ==
    {res \in [1..Cardinality(rows) -> rows] :
        /\ \A i, j \in 1..Cardinality(rows) : res[i] = res[j] => i = j
        /\ \A i, j \in 1..Cardinality(rows) : i < j => res[i][key] <= res[j][key]}

\* order_by('-key'): the orders in which a database may return the rows,
\* largest key first; rows with equal keys come in any order.
OrderByDesc(rows, key) ==
    {res \in [1..Cardinality(rows) -> rows] :
        /\ \A i, j \in 1..Cardinality(rows) : res[i] = res[j] => i = j
        /\ \A i, j \in 1..Cardinality(rows) : i < j => res[i][key] >= res[j][key]}

\* The posts of the queryset joined with the likes table: the left outer join
\* the annotation runs on.
LeftJoinLikes(ids) ==
    UNION {IF \E l \in likes : l[1] = p
           THEN {l \in likes : l[1] = p}
           ELSE {<<p, Null>>} : p \in ids \cap DOMAIN posts}

\* annotate(likes_count=Count('likes')): one row per post, with the number of
\* joined rows whose like is not NULL.
AnnotateLikesCount(ids) ==
    LET rows == LeftJoinLikes(ids)
    IN  {[id |-> p, likes_count |-> Cardinality({r \in rows : r[1] = p /\ r[2] # Null})] :
            p \in {r[1] : r \in rows}}

\* PostQuerySet.popular
PostPopular(qs) ==
    /\ pop_pc = "idle"
    /\ pop_qs' = qs
    /\ pop_result' \in OrderByDesc(AnnotateLikesCount(qs), "likes_count")
    /\ pop_pc' = "posts"
    /\ UNCHANGED <<db_vars, tag_vars, fetch_vars, url_vars>>

\* The tags of the queryset joined with the Post.tags table (left outer join).
LeftJoinPosts(ids) ==
    UNION {IF \E r \in post_tags : r[2] = t
           THEN {<<t, r[1]>> : r \in {r \in post_tags : r[2] = t}}
           ELSE {<<t, Null>>} : t \in ids \cap (1..Len(tags))}

\* A count of the joined rows, the NULL row of a tag without posts included.
CountRows(rows, t) == Cardinality({r \in rows : r[1] = t})

\* Count('posts') of tag t over the joined rows.
CountPosts(rows, t) == Cardinality({r \in rows : r[1] = t /\ r[2] # Null})

\* annotate(posts_count=Count('posts'))
AnnotatePostsCount(ids) ==
    LET rows == LeftJoinPosts(ids)
    IN  {[id |-> t, posts_count |-> CountPosts(rows, t)] : t \in {r[1] : r \in rows}}

\* TagQuerySet.popular
TagPopular(qs) ==
    /\ pop_pc = "idle"
    /\ pop_qs' = qs
    /\ pop_result' \in OrderByDesc(AnnotatePostsCount(qs), "posts_count")
    /\ pop_pc' = "tags"
    /\ UNCHANGED <<db_vars, tag_vars, fetch_vars, url_vars>>

\* The caller is done with the result.
PopEnd ==
    /\ pop_pc # "idle"
    /\ pop_qs' = {}
    /\ pop_result' = <<>>
    /\ pop_pc' = "idle"
    /\ UNCHANGED <<db_vars, tag_vars, fetch_vars, url_vars>>

NextPopular ==
    \/ pop_pc = "idle" /\ PostCreate(1, "first")
    \/ pop_pc = "idle" /\ \E p \in PostIds : PostDelete(p)
    \/ pop_pc = "idle" /\ \E p \in PostIds, u \in Users : Like(p, u)
    \/ pop_pc = "idle" /\ \E p \in PostIds, u \in Users : Unlike(p, u)
    \/ \E qs \in SUBSET PostIds : PostPopular(qs)
    \/ PopEnd

SpecPopular == InitFetch /\ [][NextPopular]_vars

InitTagged ==
    /\ tags \in {SampleTags(n) : n \in 0..MaxTags}
    /\ tag_obj = NoTag
    /\ tag_pc = "none"
    /\ InitUsersDb
    /\ InitCalls

NextTagPopular ==
    \/ pop_pc = "idle" /\ PostCreate(1, "first")
    \/ pop_pc = "idle" /\ \E p \in PostIds : PostDelete(p)
    \/ pop_pc = "idle" /\ \E p \in PostIds, t \in TagIds : PostAddTag(p, t)
    \/ pop_pc = "idle" /\ \E p \in PostIds, t \in TagIds : PostRemoveTag(p, t)
    \/ \E qs \in SUBSET TagIds : TagPopular(qs)
    \/ PopEnd

SpecTagPopular == InitTagged /\ [][NextTagPopular]_vars

\* ------------------------------------------------------ get_absolute_url
\* Iterating a dict yields its keys: what reverse() gets as positional
\* arguments when args is a dict.
Keys(d) ==
    CHOOSE s \in [1..Cardinality(DOMAIN d) -> DOMAIN d] :
        \A i, j \in 1..Cardinality(DOMAIN d) : s[i] = s[j] => i = j

\* reverse(viewname, args=args): args is unpacked as the positional arguments.
Reverse(viewname, args) == [viewname |-> viewname, args |-> Keys(args)]

\* The attributes of the two kinds of instance.
PostObject(p) == [id |-> p, author |-> posts[p].author, slug |-> posts[p].slug]
TagObject(t) == [id |-> t, title |-> tags[t]]

\* Post.get_absolute_url
PostGetAbsoluteUrl(p) ==
    /\ url_pc = "idle"
    /\ p \in DOMAIN posts
    /\ url_obj' = [kind |-> "post", id |-> p]
    /\ url_call' = Reverse("post_detail", [k \in {"slug"} |-> PostObject(p).slug])
    /\ url_pc' = "returned"
    /\ UNCHANGED <<db_vars, tag_vars, fetch_vars, pop_vars>>

\* Tag.get_absolute_url: self.slug is read first; an attribute the instance
\* does not have raises AttributeError.
TagGetAbsoluteUrl(t) ==
    /\ url_pc = "idle"
    /\ t \in 1..Len(tags)
    /\ url_obj' = [kind |-> "tag", id |-> t]
    /\ IF "slug" \in DOMAIN TagObject(t)
       THEN /\ url_call' = Reverse("tag_filter", [k \in {"tag_title"} |-> TagObject(t)["slug"]])
            /\ url_pc' = "returned"
       ELSE /\ url_call' = NoCall
            /\ url_pc' = "raised"
    /\ UNCHANGED <<db_vars, tag_vars, fetch_vars, pop_vars>>

\* The caller is done with the URL or the exception.
UrlEnd ==
    /\ url_pc # "idle"
    /\ url_obj' = NoObject
    /\ url_call' = NoCall
    /\ url_pc' = "idle"
    /\ UNCHANGED <<db_vars, tag_vars, fetch_vars, pop_vars>>

NextUrl ==
    \/ url_pc = "idle" /\ \E s \in Slugs : PostCreate(1, s)
    \/ url_pc = "idle" /\ \E p \in PostIds : PostDelete(p)
    \/ \E p \in PostIds : PostGetAbsoluteUrl(p)
    \/ \E t \in TagIds : TagGetAbsoluteUrl(t)
    \/ UrlEnd

SpecUrl == InitTagged /\ [][NextUrl]_vars

\* ------------------------------------- claims on posts, comments and users
\* C3: after a Post is deleted no Comment on it remains, and in every state
\* every stored Comment references a stored Post.
C3_CommentsFollowPosts ==
    /\ [](\A c \in DOMAIN comments : comments[c].post \in DOMAIN posts)
    /\ [][\A p \in DOMAIN posts \ DOMAIN posts' :
            \A c \in DOMAIN comments' : comments'[c].post # p]_vars

\* C3 witness: post 1 was deleted after both comments were written, and a
\* comment on another post is still stored.
C3_Witness ==
    /\ next_post_id > 1
    /\ 1 \notin DOMAIN posts
    /\ next_comment_id > MaxComments
    /\ comments # EmptyTable

\* C4 as stated: in every state the author of every stored Post is a staff user.
C4_AuthorsAreStaff ==
    \A p \in DOMAIN posts : posts[p].author \in is_staff

\* C4 amended: a step that creates a Post, or changes its author, through
\* validation leaves that Post with an author who is a staff user.
C4_ValidatedAuthorIsStaff ==
    [][((\E u \in Users, s \in Slugs : PostCreateValidated(u, s))
         \/ (\E p \in PostIds, u \in Users : PostSetAuthorValidated(p, u)))
        => \A p \in DOMAIN posts' :
             (p \notin DOMAIN posts \/ posts'[p].author # posts[p].author)
                => posts'[p].author \in is_staff']_vars

\* C4 witness: one stored post has a staff author, another has an author who
\* is not staff.
C4_Witness ==
    /\ DOMAIN posts = {1, 2}
    /\ posts[1].author \in is_staff
    /\ posts[2].author \notin is_staff

\* --------------------------------------- claims on fetch_with_comments_count
\* C5: the call returns the posts of its queryset, each once, each carrying
\* the number of distinct comments on it (0 without comments), whatever the
\* likes of the post.
C5_CommentsCountExact ==
    /\ fetch_pc # "failed"
    /\ fetch_pc = "done" =>
         /\ IdsOf(fetched) = fetch_qs \cap DOMAIN posts
         /\ Len(fetched) = Cardinality(IdsOf(fetched))
         /\ \A i \in 1..Len(fetched) :
              fetched[i].comments_count =
                Cardinality({c \in DOMAIN comments : comments[c].post = fetched[i].id})

\* C5 witness: the call returned two posts, one with two comments and two
\* likes, the other with no comment.
C5_Witness ==
    /\ fetch_pc = "done"
    /\ Len(fetched) = 2
    /\ \E i, j \in 1..2 :
         /\ fetched[i].comments_count = 2
         /\ fetched[j].comments_count = 0
         /\ Cardinality({l \in likes : l[1] = fetched[i].id}) = 2

\* C10: the call fails exactly when a loaded post has no entry in the
\* mapping; a loaded post has no entry exactly when it is no longer stored
\* when the count query runs, which (the loaded posts were stored at the
\* load, and keys are never reused) means it was deleted in between; a call
\* that does not fail attaches a count to every post.
C10_FailsOnlyOnDeletedPost ==
    /\ [](fetch_pc \in {"done", "failed"} =>
            (fetch_pc = "failed" <=> \E p \in IdsOf(fetched) : p \notin DOMAIN count_for_id))
    /\ [](fetch_pc = "done" =>
            \A i \in 1..Len(fetched) : fetched[i].comments_count # NoCount)
    /\ [][(fetch_pc = "idle" /\ fetch_pc' = "loaded") =>
            IdsOf(fetched') \subseteq DOMAIN posts]_vars
    /\ [][(fetch_pc = "loaded" /\ fetch_pc' = "counted") =>
            DOMAIN count_for_id' = IdsOf(fetched) \cap DOMAIN posts]_vars
    /\ [][\A p \in DOMAIN posts' \ DOMAIN posts :
            p = next_post_id /\ next_post_id' > p]_vars

\* C10 witness: the call failed on the second of two loaded posts, after a
\* count was attached to the first.
C10_Witness ==
    /\ fetch_pc = "failed"
    /\ Len(fetched) = 2
    /\ fetched[1].comments_count = 1
    /\ fetched[2].comments_count = NoCount

C9_UrlOfInstance ==
    /\ url_pc # "raised"
    /\ (url_pc = "returned" /\ url_obj.kind = "post") =>
          url_call = [viewname |-> "post_detail", args |-> <<posts[url_obj.id].slug>>]
    /\ (url_pc = "returned" /\ url_obj.kind = "tag") =>
          url_call = [viewname |-> "tag_filter", args |-> <<tags[url_obj.id]>>]

\* ------------------------------------------------------- claims on the Tag table
\* C1: every stored Tag's title equals its lower-case form, whether or not
\* validation ran before the save.
C1_StoredTitlesLowercase ==
    \A i \in 1..Len(tags) : IsLowercase(tags[i])

\* C1 amended: a save that follows Tag.clean writes a row whose title has no
\* upper-case character.
C1_ValidatedSaveLowercase ==
    [][(TagSave /\ tag_pc = "cleaned") =>
        \A i \in 1..Len(tags') :
            (i > Len(tags) \/ tags'[i] # tags[i]) => IsLowercase(tags'[i])]_vars

\* C1 witness: a cleaned instance was saved as a second row of two characters.
C1_Witness ==
    /\ tag_pc = "saved"
    /\ tag_obj.id = 2
    /\ tags[2] = <<"p", "p">>

\* C2: after Tag.clean has run on an instance its title has no upper-case
\* character, and a second run of Tag.clean leaves the instance as it is.
C2_CleanLowercasesOnce ==
    [][TagClean =>
        /\ IsLowercase(tag_obj'.title)
        /\ tag_pc = "cleaned" => tag_obj' = tag_obj]_vars

\* C2 witness: an instance built with an id and a two-character title has
\* been cleaned.
C2_Witness ==
    /\ tag_pc = "cleaned"
    /\ tag_obj.id # 0
    /\ tag_obj.title = <<"p", "p">>

\* No two rows of the Tag table hold the same title.
TagTitlesUnique ==
    \A i, j \in 1..Len(tags) : tags[i] = tags[j] => i = j

\* C6: no two distinct stored Tags have the same title, and a save of an
\* instance whose title another row holds is rejected and leaves the table
\* unchanged.
C6_UniqueTitles ==
    /\ []TagTitlesUnique
    /\ [][(TagSave /\ \E j \in 1..Len(tags) : j # tag_obj.id /\ tags[j] = tag_obj.title)
            => (tags' = tags /\ tag_pc' = "rejected")]_vars

\* C6 witness: with two rows stored, a save of a duplicate title was rejected.
C6_Witness ==
    /\ tag_pc = "rejected"
    /\ Len(tags) = 2
    /\ \E j \in 1..Len(tags) : j # tag_obj.id /\ tags[j] = tag_obj.title

====
